---- MODULE Spec2Model ----
(***************************************************************************)
(* big3-record: the data pipeline of the BIG3 training log viewer.         *)
(*                                                                         *)
(*   timeRange.ts   parseTimestamp                                         *)
(*   ChartCard.tsx  toNum, sortAndFillBpSqDl, ChartCard (chartData)        *)
(*   App.tsx        getLatestRow, latestBodyWeight, bestStats,             *)
(*                  bestStatsRatios, the fetch effect of App               *)
(*                                                                         *)
(* Representation.                                                         *)
(*   - null / undefined is the empty tuple NULL; a present value x is the  *)
(*     one-element tuple <<x>> (Some(x)).                                  *)
(*   - a weight (kg) is an integer number of hundredths of a kilogram, so  *)
(*     80 kg is 8000 and 0.05 kg is 5; a ratio is an integer number of     *)
(*     hundredths too. Arithmetic is exact decimal arithmetic.             *)
(*   - an instant (Date.getTime(), milliseconds since the epoch) is the    *)
(*     tuple of its decimal digits, most significant first, because the    *)
(*     values (about 1.7e12) do not fit the model checker's integers.      *)
(*   - a timestamp string is a string; String.trim, Number, the Date       *)
(*     parser and String.replace are tables over the strings of the model. *)
(***************************************************************************)
EXTENDS Integers, Sequences, FiniteSets, TLC

VARIABLES rows, loading, error, showWeightRatio, mounted, effects, view

vars == <<rows, loading, error, showWeightRatio, mounted, effects, view>>

(***************************************************************************)
(* Bounds of the model.                                                    *)
(***************************************************************************)
\* longest row list drawn as an input of the derivations
MaxRows == 3
\* how many times the fetch effect may run (mount, teardown, mount again)
MaxMounts == 2
\* longest table of date cells drawn as a response
MaxEpochRows == 2

(***************************************************************************)
(* null and present values.                                                *)
(***************************************************************************)
NULL == <<>>

Some(x) == <<x>>

Val(o) == o[1]

(***************************************************************************)
(* Instants as digit tuples.                                               *)
(***************************************************************************)
NumLess(a, b) ==
    \/ Len(a) < Len(b)
    \/ /\ Len(a) = Len(b)
       /\ \E i \in 1..Len(a) :
            /\ a[i] < b[i]
            /\ \A j \in 1..(i - 1) : a[j] = b[j]

\* 1e9, 1e12 and 1e15
E9 == <<1, 0,0,0, 0,0,0, 0,0,0>>

E12 == E9 \o <<0, 0, 0>>

E15 == E12 \o <<0, 0, 0>>

\* num * 1000
Times1000(num) == num \o <<0, 0, 0>>

\* the largest time value a Date holds: 8.64e15 ms
MaxDateMs == <<8, 6, 4>> \o <<0,0,0, 0,0,0, 0,0,0, 0,0,0, 0>>

\* new Date(ms) for an integer ms >= 0; NULL is the Invalid Date
DateFromMs(ms) == IF NumLess(MaxDateMs, ms) THEN NULL ELSE ms

(***************************************************************************)
(* The timestamp strings of the model and the JavaScript built-ins on      *)
(* them.                                                                   *)
(***************************************************************************)
Jan1 == <<1,7,0,4,0,6,7,2,0,0>> \o <<0, 0, 0>>

Feb1 == <<1,7,0,6,7,4,5,6,0,0>> \o <<0, 0, 0>>

Mar1 == <<1,7,0,9,2,5,1,2,0,0>> \o <<0, 0, 0>>

\* 99...9, n digits
Nines(n) == [i \in 1..n |-> 9]

\* String.prototype.trim
Trim(s) ==
    CASE s = "  " -> ""
      [] s = " 2024-02-01 " -> "2024-02-01"
      [] OTHER -> s

\* Number(s) for a trimmed, non-empty s: the digits of a non-negative integer,
\* NULL when the result is NaN
NumberOf(s) ==
    CASE s = "1704067200" -> <<1,7,0,4,0,6,7,2,0,0>>
      [] s = "1706745600" -> <<1,7,0,6,7,4,5,6,0,0>>
      [] s = "1709251200000" -> Mar1
      [] s = "1000000000" -> E9
      [] s = "999999999999" -> Nines(12)
      [] s = "1000000000000" -> E12
      [] s = "999999999999999" -> Nines(15)
      [] s = "1000000000000000" -> E15
      [] OTHER -> NULL

\* new Date(s).getTime() for a string s, NULL for the Invalid Date.
\* Date-only ISO forms are UTC; the slash form is parsed by the engine's
\* legacy parser, modelled in a UTC time zone.
DateParse(s) ==
    CASE s = "2024-01-01" -> Jan1
      [] s = "2024-02-01" -> Feb1
      [] s = "2024-03-01" -> Mar1
      [] s = "2024/02/01" -> Feb1
      [] s = "2024-01-01T00:00:00.000Z" -> Jan1
      [] s = "2024-02-01T00:00:00.000Z" -> Feb1
      [] s = "2024-03-01T00:00:00.000Z" -> Mar1
      [] s = "1970-01-12T13:46:40.000Z" -> E9
      [] s = "2001-09-09T01:46:40.000Z" -> E12
      [] s = "+033658-09-27T01:46:39.000Z" -> Times1000(Nines(12))
      [] s = "+033658-09-27T01:46:39.999Z" -> Nines(15)
      [] OTHER -> NULL

\* new Date(ms).toISOString() for a valid date
ToISOString(ms) ==
    CASE ms = Jan1 -> "2024-01-01T00:00:00.000Z"
      [] ms = Feb1 -> "2024-02-01T00:00:00.000Z"
      [] ms = Mar1 -> "2024-03-01T00:00:00.000Z"
      [] ms = E9 -> "1970-01-12T13:46:40.000Z"
      [] ms = E12 -> "2001-09-09T01:46:40.000Z"
      [] ms = Times1000(Nines(12)) -> "+033658-09-27T01:46:39.000Z"
      [] ms = Nines(15) -> "+033658-09-27T01:46:39.999Z"
      [] OTHER -> "(another instant)"

\* String(n) for a non-negative integer n
NumeralOf(n) ==
    CASE n = <<1,7,0,4,0,6,7,2,0,0>> -> "1704067200"
      [] n = <<1,7,0,6,7,4,5,6,0,0>> -> "1706745600"
      [] n = Mar1 -> "1709251200000"
      [] n = E9 -> "1000000000"
      [] n = Nines(12) -> "999999999999"
      [] n = E12 -> "1000000000000"
      [] n = Nines(15) -> "999999999999999"
      [] n = E15 -> "1000000000000000"
      [] n = <<4,5,3,2,3>> -> "45323"
      [] OTHER -> "(another numeral)"

\* s.replace(/\//g, "-")
ReplaceSlashes(s) ==
    CASE s = "2024/02/01" -> "2024-02-01"
      [] OTHER -> s

(***************************************************************************)
(* timeRange.ts                                                            *)
(***************************************************************************)
parseTimestamp(ts) ==
    IF ts = "" THEN NULL
    ELSE LET trimmed == Trim(ts) IN
      IF trimmed = "" THEN NULL
      ELSE LET num == NumberOf(trimmed) IN
        IF num # NULL /\ ~NumLess(num, E9) /\ NumLess(num, E15)
        THEN DateFromMs(IF NumLess(num, E12) THEN Times1000(num) ELSE num)
        ELSE LET d == DateParse(trimmed) IN
          IF d # NULL THEN d
          ELSE DateParse(ReplaceSlashes(trimmed))

\* the sign of a.getTime() - b.getTime() for two valid dates
CompareDates(a, b) ==
    IF NumLess(a, b) THEN -1 ELSE IF NumLess(b, a) THEN 1 ELSE 0

\* Math.round(x * 10) / 10 for x = s / 100, in hundredths:
\* Math.round rounds to the nearest integer, a tie towards +Infinity
Round1(s) == ((s + 5) \div 10) * 10

\* Math.round((raw / w) * 100) / 100 for w > 0, in hundredths
Round2Ratio(raw, w) == (200 * raw + w) \div (2 * w)

(***************************************************************************)
(* ChartCard.tsx                                                           *)
(***************************************************************************)
\* a LogRow field is a finite number or null, so Number(v) is v and finite
toNum(v) == IF v = NULL THEN NULL ELSE v

\* each row with its parsed timestamp. The comparators parse the timestamps
\* of their two rows at every call; parsing is a pure function, so a row is
\* parsed once here.
timed(rs) ==
    [i \in 1..Len(rs) |-> [row |-> rs[i], date |-> parseTimestamp(rs[i].timestamp)]]

\* mutant: ?? 0 for ?? Infinity, a timestamp that does not parse is the epoch
compareRowTimeZero(a, b) ==
    IF a.date = NULL /\ b.date = NULL THEN 0
    ELSE IF a.date = NULL THEN -1
    ELSE IF b.date = NULL THEN 1
    ELSE CompareDates(a.date, b.date)

\* the comparator of sortAndFillBpSqDl: ta - tb with Infinity for a
\* timestamp that does not parse (Infinity - Infinity is NaN)
compareRowTime(a, b) ==
    IF a.date = NULL /\ b.date = NULL THEN 0
    ELSE IF a.date = NULL THEN 1
    ELSE IF b.date = NULL THEN -1
    ELSE CompareDates(a.date, b.date)

\* the comparator of getLatestRow: a.date.getTime() - b.date.getTime()
compareAscending(a, b) == CompareDates(a.date, b.date)

\* the comparator of latestBodyWeight: b.date.getTime() - a.date.getTime()
compareDescending(a, b) == CompareDates(b.date, a.date)

\* the three comparators of the program, by name
comparator(name, a, b) ==
    CASE name = "rowTime" -> compareRowTime(a, b)
      [] name = "ascending" -> compareAscending(a, b)
      [] name = "descending" -> compareDescending(a, b)

\* Array.prototype.sort with the comparator of that name: the sort is stable,
\* and a comparator result of NaN counts as +0. A comparator yields -1, 0 or 1.
StableSort(s, name) ==
    LET n == Len(s)
        pos == [i \in 1..n |->
                  1 + Cardinality({ j \in 1..n :
                        LET c == comparator(name, s[j], s[i])
                        IN c < 0 \/ (c = 0 /\ j < i) })]
    IN [k \in 1..n |-> s[CHOOSE i \in 1..n : pos[i] = k]]

\* const sorted = [...rows].sort(...)
sortedRows(rs) ==
    LET s == StableSort(timed(rs), "rowTime") IN [i \in 1..Len(s) |-> s[i].row]

\* sorted.map(...) from position i on, with the closure's lastBp, lastSq and
\* lastDl as they stand before row i
RECURSIVE fillFrom(_, _, _, _, _)
fillFrom(sorted, i, lastBp, lastSq, lastDl) ==
    IF i > Len(sorted) THEN <<>>
    ELSE LET row == sorted[i]
             bp == toNum(row.bp)
             sq == toNum(row.sq)
             dl == toNum(row.dl)
             nextBp == IF bp # NULL THEN bp ELSE lastBp
             nextSq == IF sq # NULL THEN sq ELSE lastSq
             nextDl == IF dl # NULL THEN dl ELSE lastDl
         IN <<[row EXCEPT !.bp = IF bp # NULL THEN bp ELSE nextBp,
                          !.sq = IF sq # NULL THEN sq ELSE nextSq,
                          !.dl = IF dl # NULL THEN dl ELSE nextDl]>>
            \o fillFrom(sorted, i + 1, nextBp, nextSq, nextDl)

\* mutant: lastBp, lastSq and lastDl assigned on every row, so that a value is
\* carried over one row only
RECURSIVE fillFromOneStep(_, _, _, _, _)
fillFromOneStep(sorted, i, lastBp, lastSq, lastDl) ==
    IF i > Len(sorted) THEN <<>>
    ELSE LET row == sorted[i]
             bp == toNum(row.bp)
             sq == toNum(row.sq)
             dl == toNum(row.dl)
         IN <<[row EXCEPT !.bp = IF bp # NULL THEN bp ELSE lastBp,
                          !.sq = IF sq # NULL THEN sq ELSE lastSq,
                          !.dl = IF dl # NULL THEN dl ELSE lastDl]>>
            \o fillFromOneStep(sorted, i + 1, bp, sq, dl)

fillRowsOneStep(sorted) == fillFromOneStep(sorted, 1, NULL, NULL, NULL)

\* mutant: the body weight carried forward like a lift
fillRowsWithBodyWeight(sorted) ==
    LET out == fillFrom(sorted, 1, NULL, NULL, NULL)
        before(i) == { j \in 1..(i - 1) : sorted[j].bodyWeight # NULL }
        last(i) == CHOOSE j \in before(i) : \A k \in before(i) : k <= j
    IN [i \in 1..Len(out) |->
          [out[i] EXCEPT !.bodyWeight =
             IF @ # NULL \/ before(i) = {} THEN @ ELSE sorted[last(i)].bodyWeight]]

fillRows(sorted) == fillFrom(sorted, 1, NULL, NULL, NULL)

\* mutant: sorted, nothing filled
sortWithoutFill(rs) == sortedRows(rs)

sortAndFillBpSqDl(rs) == fillRows(sortedRows(rs))

RATIO_KEYS == {"total", "bp", "sq", "dl"}

DataKeys == {"total", "bp", "sq", "dl", "bodyWeight"}

useRatio(dataKey, weightRatio) ==
    weightRatio /\ dataKey \in RATIO_KEYS /\ dataKey # "bodyWeight"

\* mutant: Math.floor for Math.round
pointTotalFloor(bp, sq, dl) ==
    IF bp # NULL /\ sq # NULL /\ dl # NULL
    THEN Some(((Val(bp) + Val(sq) + Val(dl)) \div 10) * 10)
    ELSE NULL

pointTotal(bp, sq, dl) ==
    IF bp # NULL /\ sq # NULL /\ dl # NULL
    THEN Some(Round1(Val(bp) + Val(sq) + Val(dl)))
    ELSE NULL

\* mutant: bodyWeight !== 0 for bodyWeight > 0
pointRatioNonZero(base, dataKey, ratioMode) ==
    IF ratioMode /\ base.bodyWeight # NULL /\ Val(base.bodyWeight) # 0
    THEN LET raw == base[dataKey]
             w == Val(base.bodyWeight)
         IN IF raw = NULL THEN NULL
            ELSE IF w > 0 THEN Some(Round2Ratio(Val(raw), w))
            ELSE Some(Round2Ratio(-Val(raw), -w))
    ELSE NULL

\* the ${dataKey}Ratio property of a point; NULL is null or not set
pointRatio(base, dataKey, ratioMode) ==
    IF ratioMode /\ base.bodyWeight # NULL /\ Val(base.bodyWeight) > 0
    THEN LET raw == base[dataKey] IN
         IF raw # NULL THEN Some(Round2Ratio(Val(raw), Val(base.bodyWeight)))
         ELSE NULL
    ELSE NULL

chartPoint(row, dataKey, ratioMode) ==
    LET bp == IF row.bp # NULL THEN row.bp ELSE NULL
        sq == IF row.sq # NULL THEN row.sq ELSE NULL
        dl == IF row.dl # NULL THEN row.dl ELSE NULL
        base == [timestamp |-> row.timestamp, bp |-> bp, sq |-> sq, dl |-> dl,
                 total |-> pointTotal(bp, sq, dl),
                 bodyWeight |-> toNum(row.bodyWeight)]
    IN [timestamp |-> base.timestamp, bp |-> base.bp, sq |-> base.sq,
        dl |-> base.dl, total |-> base.total, bodyWeight |-> base.bodyWeight,
        ratio |-> pointRatio(base, dataKey, ratioMode)]

\* filledRows.map(...): the chartData of one ChartCard
chartData(filledRows, dataKey, ratioMode) ==
    [i \in 1..Len(filledRows) |-> chartPoint(filledRows[i], dataKey, ratioMode)]

(***************************************************************************)
(* App.tsx: the derived values of App                                      *)
(***************************************************************************)
hasDate(x) == x.date # NULL

\* rows.map(row => ({row, date})).filter(x => x.date != null)
withDate(rs) == SelectSeq(timed(rs), hasDate)

\* mutant: the sort left out, the last dated row of the list
getLastDatedRow(rs) ==
    IF Len(rs) = 0 THEN NULL
    ELSE LET wd == withDate(rs) IN
         IF Len(wd) = 0 THEN NULL
         ELSE Some(wd[Len(wd)].row)

getLatestRow(rs) ==
    IF Len(rs) = 0 THEN NULL
    ELSE LET wd == withDate(rs) IN
         IF Len(wd) = 0 THEN NULL
         ELSE Some(StableSort(wd, "ascending")[Len(wd)].row)

\* mutant: bw > 0 left out
hasAnyBodyWeight(x) == x.row.bodyWeight # NULL

hasBodyWeight(x) == x.row.bodyWeight # NULL /\ Val(x.row.bodyWeight) > 0

latestBodyWeight(rs) ==
    LET scan == SelectSeq(StableSort(withDate(rs), "descending"),
                          hasBodyWeight)
    IN IF Len(scan) = 0 THEN NULL ELSE scan[1].row.bodyWeight

isPresent(v) == v # NULL

\* mutant: only the rows whose timestamp parses
numsOfDatedRows(rs, key) ==
    SelectSeq([i \in 1..Len(withDate(rs)) |-> withDate(rs)[i].row[key]], isPresent)

\* rows.map((r) => r[key]).filter((v) => v != null && Number.isFinite(v))
nums(rs, key) == SelectSeq([i \in 1..Len(rs) |-> rs[i][key]], isPresent)

\* Math.max(...values) for a non-empty values
RECURSIVE mathMax(_)
mathMax(values) ==
    IF Len(values) = 1 THEN Val(values[1])
    ELSE LET m == mathMax(Tail(values)) IN
         IF Val(values[1]) > m THEN Val(values[1]) ELSE m

\* nums(key).length ? Math.max(...nums(key)) : null
maxOf(rs, key) ==
    IF Len(nums(rs, key)) # 0 THEN Some(mathMax(nums(rs, key))) ELSE NULL

\* mutant: the total is the largest total of a single row
bestStatsOfBestRow(rs) ==
    LET maxBP == maxOf(rs, "bp")
        maxSQ == maxOf(rs, "sq")
        maxDL == maxOf(rs, "dl")
        totals == SelectSeq([i \in 1..Len(rs) |->
                               pointTotal(rs[i].bp, rs[i].sq, rs[i].dl)], isPresent)
    IN [maxBP |-> maxBP, maxSQ |-> maxSQ, maxDL |-> maxDL,
        total |-> IF Len(totals) # 0 THEN Some(mathMax(totals)) ELSE NULL]

bestStats(rs) ==
    LET maxBP == maxOf(rs, "bp")
        maxSQ == maxOf(rs, "sq")
        maxDL == maxOf(rs, "dl")
    IN [maxBP |-> maxBP, maxSQ |-> maxSQ, maxDL |-> maxDL,
        total |-> IF maxBP # NULL /\ maxSQ # NULL /\ maxDL # NULL
                  THEN Some(Round1(Val(maxBP) + Val(maxSQ) + Val(maxDL)))
                  ELSE NULL]

bestStatsRatios(stats, lbw) ==
    IF lbw = NULL \/ Val(lbw) <= 0
    THEN [maxBP |-> NULL, maxSQ |-> NULL, maxDL |-> NULL, total |-> NULL]
    ELSE LET round2(v) == IF v # NULL THEN Some(Round2Ratio(Val(v), Val(lbw)))
                          ELSE NULL
         IN [maxBP |-> round2(stats.maxBP), maxSQ |-> round2(stats.maxSQ),
             maxDL |-> round2(stats.maxDL), total |-> round2(stats.total)]

(***************************************************************************)
(* What App renders. The memoised values are computed on every render; the *)
(* five cards are rendered only when the view is neither loading nor in    *)
(* error. Every card is given the same rows, so the filledRows of the five *)
(* cards are one value, kept once; charts[k] is the card of dataKey k.     *)
(* The Body Weight card is never given weightRatio.                        *)
(***************************************************************************)
Unmounted == [kind |-> "unmounted"]

Render(rs, ld, err, swr) ==
    LET kind == IF ld THEN "loading"
                ELSE IF err # NULL /\ Val(err) # "" THEN "error"
                ELSE "loaded"
        lbw == latestBodyWeight(rs)
        stats == bestStats(rs)
        filledRows == sortAndFillBpSqDl(rs)
        card(k) == LET ratioMode == useRatio(k, IF k = "bodyWeight" THEN FALSE ELSE swr)
                   IN [useRatio |-> ratioMode,
                       chartData |-> chartData(filledRows, k, ratioMode)]
    IN [kind |-> kind,
        latestRow |-> getLatestRow(rs),
        latestBodyWeight |-> lbw,
        bestStats |-> stats,
        bestStatsRatios |-> bestStatsRatios(stats, lbw),
        message |-> IF kind = "error" THEN err ELSE NULL,
        \* the date shown with the latest row: parseTimestamp(latestRow.timestamp)
        asOf |-> LET latestRow == getLatestRow(rs) IN
                 IF latestRow # NULL /\ Val(latestRow).timestamp # ""
                 THEN parseTimestamp(Val(latestRow).timestamp)
                 ELSE NULL,
        filledRows |-> IF kind = "loaded" THEN filledRows ELSE NULL,
        charts |-> IF kind = "loaded" THEN [k \in DataKeys |-> card(k)] ELSE NULL]

(***************************************************************************)
(* ChartCard.tsx: the sheet decoder and fetchLogData.                      *)
(*   A JSON value of a cell is Str(s) or Num(n); the number of a date cell *)
(*   is a digit tuple like an instant, the number of a weight cell is in   *)
(*   hundredths of a kilogram. A cell is NULL or [v, f], each NULL or      *)
(*   Some(value); a row is NULL or [c], c being NULL or Some(cells).       *)
(***************************************************************************)
Str(s) == [t |-> "string", s |-> s, n |-> NULL]

Num(n) == [t |-> "number", s |-> "", n |-> n]

Cell(v, f) == [v |-> v, f |-> f]

\* x === ""
IsEmptyString(x) == x.t = "string" /\ x.s = ""

\* Number(x) of a weight cell's value, NULL when the result is not finite
NumberOfKg(x) ==
    IF x.t = "number" THEN Some(x.n)
    ELSE CASE x.s = "80" -> Some(8000)
           [] x.s = " 60.5 " -> Some(6050)
           [] OTHER -> NULL

\* Number(x) of a date cell's value, NULL when the result is NaN
NumberOfRaw(x) == IF x.t = "number" THEN x.n ELSE NumberOf(Trim(x.s))

\* String(x)
StringOf(x) == IF x.t = "string" THEN x.s ELSE NumeralOf(x.n)

getCellNumber(c) ==
    IF c = NULL \/ c.v = NULL \/ IsEmptyString(Val(c.v)) THEN NULL
    ELSE NumberOfKg(Val(c.v))

\* mutant: every epoch below 1e15 is taken for milliseconds
getCellTimestampAsMillis(c) ==
    IF c = NULL THEN ""
    ELSE LET raw == IF c.v # NULL THEN c.v ELSE c.f IN
      IF raw = NULL \/ IsEmptyString(Val(raw)) THEN ""
      ELSE LET num == NumberOfRaw(Val(raw)) IN
        IF num # NULL /\ ~NumLess(num, E9) /\ NumLess(num, E15)
        THEN ToISOString(num)
        ELSE StringOf(Val(IF c.f # NULL THEN c.f ELSE c.v))

getCellTimestamp(c) ==
    IF c = NULL THEN ""
    ELSE LET raw == IF c.v # NULL THEN c.v ELSE c.f IN
      IF raw = NULL \/ IsEmptyString(Val(raw)) THEN ""
      ELSE LET num == NumberOfRaw(Val(raw)) IN
        IF num # NULL /\ ~NumLess(num, E9) /\ NumLess(num, E15)
        THEN ToISOString(IF NumLess(num, E12) THEN Times1000(num) ELSE num)
        ELSE StringOf(Val(IF c.f # NULL THEN c.f ELSE c.v))

\* the body of the loop: cells = row?.c ?? [] and the five cells by index
decodeRow(row) ==
    LET cells == IF row = NULL \/ row.c = NULL THEN <<>> ELSE Val(row.c)
        cell(i) == IF i <= Len(cells) THEN cells[i] ELSE NULL
    IN [timestamp |-> getCellTimestamp(cell(1)),
        bp |-> getCellNumber(cell(2)),
        sq |-> getCellNumber(cell(3)),
        dl |-> getCellNumber(cell(4)),
        bodyWeight |-> getCellNumber(cell(5))]

\* A response text is [head, middle, tail]: its first 47 characters, its last
\* two characters and what lies between (empty for a shorter text). The
\* middle is the sequence of the pieces it is written in: one piece for a
\* text that is no table, else the opening, one piece for each row (a comma
\* before each but the first) and the closing.
\* text.substring(47).slice(0, -2)
Unwrap(text) == text.middle

TableOpen == "{\"table\":{\"rows\":["

TableClose == "]}}"

HeaderText ==
    "{\"c\":[{\"v\":\"Date\"},{\"v\":\"BP\"},{\"v\":\"SQ\"},{\"v\":\"DL\"},{\"v\":\"BW\"}]}"

HeaderRow ==
    [c |-> Some(<<Cell(Some(Str("Date")), NULL), Cell(Some(Str("BP")), NULL),
                  Cell(Some(Str("SQ")), NULL), Cell(Some(Str("DL")), NULL),
                  Cell(Some(Str("BW")), NULL)>>)]

\* an epoch cell, missing cells
EpochRowText == ",{\"c\":[{\"v\":1704067200},{\"v\":80},null,null,{\"v\":60}]}"

EpochRow ==
    [c |-> Some(<<Cell(Some(Num(<<1,7,0,4,0,6,7,2,0,0>>)), NULL),
                  Cell(Some(Num(8000)), NULL), NULL, NULL,
                  Cell(Some(Num(6000)), NULL)>>)]

\* a date cell with its display form, an empty cell, a numeral, a short row
DateRowText ==
    ",{\"c\":[{\"v\":\"Date(2024,1,1)\",\"f\":\"2024/02/01\"},{\"v\":\"\"},{\"v\":\"80\"}]}"

DateRow ==
    [c |-> Some(<<Cell(Some(Str("Date(2024,1,1)")), Some(Str("2024/02/01"))),
                  Cell(Some(Str("")), NULL),
                  Cell(Some(Str("80")), NULL)>>)]

\* the header, the two rows and a missing row
LogTableText == <<TableOpen, HeaderText, EpochRowText, DateRowText, ",null", TableClose>>

\* date cells: epoch numbers at and between the thresholds, as numbers and
\* as numerals; a numeral in the display form only; a day serial number with
\* an epoch numeral as its display form; the first number past the range
EpochCells ==
    { Cell(Some(Num(n)), NULL) :
        n \in {E9, <<1,7,0,4,0,6,7,2,0,0>>, Nines(12), E12, Mar1, Nines(15), E15} }
    \cup { Cell(Some(Str(s)), NULL) : s \in {"1000000000", "999999999999999"} }
    \cup { Cell(NULL, Some(Str("1706745600"))) }
    \cup { Cell(Some(Num(<<4,5,3,2,3>>)), Some(Str(s))) :
             s \in {"1706745600", "1709251200000", "999999999999", "1000000000000"} }

EpochCellLists == UNION { [1..n -> EpochCells] : n \in 0..MaxEpochRows }

\* the JSON text of a value, of a cell, of a row of one cell, of a table of
\* such rows
ValueText(x) == IF x.t = "string" THEN "\"" \o x.s \o "\"" ELSE NumeralOf(x.n)

CellText(c) ==
    "{" \o (IF c.v # NULL THEN "\"v\":" \o ValueText(Val(c.v)) ELSE "")
        \o (IF c.v # NULL /\ c.f # NULL THEN "," ELSE "")
        \o (IF c.f # NULL THEN "\"f\":" \o ValueText(Val(c.f)) ELSE "") \o "}"

RowText(c) == ",{\"c\":[" \o CellText(c) \o "]}"

TableText(cs) ==
    <<TableOpen, HeaderText>> \o [i \in 1..Len(cs) |-> RowText(cs[i])] \o <<TableClose>>

\* whether a piece is the text of a row, and the row it is the text of
IsRowText(piece) ==
    \/ piece \in {HeaderText, EpochRowText, DateRowText, ",null"}
    \/ \E c \in EpochCells : RowText(c) = piece

RowParse(piece) ==
    CASE piece = HeaderText -> HeaderRow
      [] piece = EpochRowText -> EpochRow
      [] piece = DateRowText -> DateRow
      [] piece = ",null" -> NULL
      [] OTHER -> [c |-> Some(<<CHOOSE c \in EpochCells : RowText(c) = piece>>)]

JsonOf(table) == [threw |-> FALSE, message |-> "", value |-> Some([table |-> table])]

JsonError(message) == [threw |-> TRUE, message |-> message, value |-> NULL]

\* JSON.parse(s): the value (NULL for the JSON null), or a SyntaxError
JSONParse(s) ==
    CASE s = <<>> -> JsonError("Unexpected end of JSON input")
      [] s = <<"null">> -> [threw |-> FALSE, message |-> "", value |-> NULL]
      [] s = <<"{\"status\":\"error\"}">> -> JsonOf(NULL)
      [] s = <<"{\"table\":{}}">> -> JsonOf(Some([rows |-> NULL]))
      [] OTHER ->
           IF /\ Len(s) >= 2 /\ s[1] = TableOpen /\ s[Len(s)] = TableClose
              /\ \A i \in 2..(Len(s) - 1) : IsRowText(s[i])
           THEN JsonOf(Some([rows |-> Some([i \in 1..(Len(s) - 2) |-> RowParse(s[i + 1])])]))
           ELSE JsonError("Unexpected token '<' is not valid JSON")

Fulfilled(value) == [state |-> "fulfilled", value |-> value, message |-> ""]

\* rejected with an Error (a TypeError, an Error, a SyntaxError) of this message
Rejected(message) == [state |-> "rejected", value |-> <<>>, message |-> message]

\* fetchLogData() given how fetch(SHEET_URL) settles: res.failed is a fetch
\* that rejects, else res is the Response
fetchLogData(res) ==
    IF res.failed THEN Rejected(res.message)
    ELSE IF ~res.ok
    THEN Rejected("HTTP " \o res.status \o ": " \o res.statusText)
    ELSE LET parsed == JSONParse(Unwrap(res.text)) IN
      IF parsed.threw THEN Rejected(parsed.message)
      ELSE IF parsed.value = NULL
      THEN Rejected("Cannot read properties of null (reading 'table')")
      ELSE LET json == Val(parsed.value)
               rs == IF json.table # NULL /\ Val(json.table).rows # NULL
                     THEN Val(Val(json.table).rows)
                     ELSE <<>>
           IN Fulfilled([i \in 1..(Len(rs) - 1) |-> decodeRow(rs[i + 1])])

(***************************************************************************)
(* Inputs of the model.                                                    *)
(***************************************************************************)
Row(t, bp, sq, dl, bw) ==
    [timestamp |-> t, bp |-> bp, sq |-> sq, dl |-> dl, bodyWeight |-> bw]

RowsOf(T, BP, SQ, DL, BW) ==
    { Row(t, bp, sq, dl, bw) : t \in T, bp \in BP, sq \in SQ, dl \in DL, bw \in BW }

ListsOver(S, n) == UNION { [1..k -> S] : k \in 0..n }

\* spec section 8: the series scenario
SeriesScenario ==
    << Row("2024-01-01", Some(8000), NULL, NULL, NULL),
       Row("2024-02-01", NULL, Some(10000), NULL, NULL),
       Row("2024-03-01", Some(8500), NULL, Some(12000), NULL) >>

\* spec section 8: the summary scenario
SummaryScenario ==
    << Row("", Some(10000), Some(0), Some(0), NULL),
       Row("", Some(0), Some(15000), Some(20000), NULL) >>

\* lifts missing here and there: bench press over dates given out of order and
\* a timestamp that does not parse; all three lifts on one date
FillRows ==
    RowsOf({"2024-02-01", "2024-01-01", "n/a"}, {NULL, Some(8000), Some(8500)},
           {NULL}, {NULL}, {NULL})
      \cup RowsOf({"2024-01-01"}, {NULL, Some(8000)}, {NULL, Some(10000)},
                  {NULL, Some(12000)}, {NULL})

\* every form of timestamp: ISO date, epoch seconds, epoch milliseconds,
\* padded, empty, unparseable
OrderRows ==
    RowsOf({"2024-03-01", "1704067200", " 2024-02-01 ", "1709251200000",
            "", "n/a"},
           {NULL, Some(8000)}, {NULL}, {NULL}, {NULL})

\* body weights: missing, zero, negative, two positive ones
WeightRows ==
    RowsOf({"2024-01-01", "2024-02-01", "n/a"}, {NULL}, {NULL}, {NULL},
           {NULL, Some(0), Some(-6000), Some(6000), Some(6150)})

\* a lift with and without the row's body weight
RatioRows ==
    RowsOf({"2024-01-01"}, {NULL, Some(8025)}, {Some(10000)}, {Some(12000)},
           {NULL, Some(0), Some(-6000), Some(6000), Some(7310)})

\* weights with a second decimal, ties of the rounding among the sums
DecimalRows ==
    RowsOf({"2024-01-01"}, {NULL, Some(5), Some(-5), Some(8024)},
           {NULL, Some(1)}, {NULL, Some(0)}, {NULL})

FillLists == ListsOver(FillRows, MaxRows) \cup {SeriesScenario}

OrderLists == ListsOver(OrderRows, MaxRows)

WeightLists == ListsOver(WeightRows, MaxRows)

RatioLists == ListsOver(RatioRows, MaxRows)

DecimalLists == ListsOver(DecimalRows, MaxRows) \cup {SummaryScenario}

\* how fetch(SHEET_URL) may settle
NetworkError(message) ==
    [failed |-> TRUE, message |-> message, ok |-> FALSE, status |-> "",
     statusText |-> "", text |-> [head |-> "", middle |-> <<>>, tail |-> ""]]

Response(status, statusText, middle) ==
    [failed |-> FALSE, message |-> "", ok |-> status = "200", status |-> status,
     statusText |-> statusText,
     text |-> IF middle = <<>> THEN [head |-> "", middle |-> <<>>, tail |-> ""]
              ELSE [head |-> "/*O_o*/ google.visualization.Query.setResponse(",
                    middle |-> middle, tail |-> ");"]]

Responses ==
    {NetworkError("Failed to fetch"),
     Response("500", "Internal Server Error", <<"<title>Error 500</title>">>),
     Response("404", "", LogTableText),
     Response("200", "OK", <<>>),
     Response("200", "OK", <<"<title>Sign in</title>">>),
     Response("200", "OK", <<"null">>),
     Response("200", "OK", <<"{\"status\":\"error\"}">>),
     Response("200", "OK", <<"{\"table\":{}}">>),
     Response("200", "OK", <<TableOpen, HeaderText, TableClose>>),
     Response("200", "OK", LogTableText)}

(***************************************************************************)
(* App: the state and the fetch effect.                                    *)
(*   effects[e] is the e-th run of the effect: its closure variable        *)
(*   cancelled, how its fetch settled (NULL until it has) and the position *)
(*   of its promise chain                                                  *)
(*   ("pending" -> "settled" -> then / catch -> "finally" -> "done").      *)
(***************************************************************************)
Init ==
    /\ rows = <<>>
    /\ loading = TRUE
    /\ error = NULL
    /\ showWeightRatio = FALSE
    /\ mounted = FALSE
    /\ effects = <<>>
    /\ view = Unmounted

\* the component is mounted (again: React keeps no state across a real
\* unmount, and replays mount -> teardown -> mount with the state kept in
\* StrictMode) and the effect body runs
Mount ==
    /\ ~mounted
    /\ Len(effects) < MaxMounts
    /\ mounted' = TRUE
    /\ effects' = Append(effects, [cancelled |-> FALSE, pc |-> "pending",
                                   response |-> NULL])
    /\ loading' = TRUE
    /\ error' = NULL
    /\ view' = Render(rows, TRUE, NULL, showWeightRatio)
    /\ UNCHANGED <<rows, showWeightRatio>>

\* the effect's cleanup: cancelled = true
Unmount ==
    /\ mounted
    /\ mounted' = FALSE
    /\ effects' = [effects EXCEPT ![Len(effects)].cancelled = TRUE]
    /\ view' = Unmounted
    /\ UNCHANGED <<rows, loading, error, showWeightRatio>>

Rerender == IF mounted THEN Render(rows', loading', error', showWeightRatio') ELSE Unmounted

\* fetch(SHEET_URL) settles with res and fetchLogData() runs to its end
FetchSettles(e, res) ==
    /\ effects[e].pc = "pending"
    /\ effects' = [effects EXCEPT ![e].pc = "settled", ![e].response = Some(res)]
    /\ UNCHANGED <<rows, loading, error, showWeightRatio, mounted, view>>

\* the promise of fetchLogData() in the e-th run, once settled
promise(e) == fetchLogData(Val(effects[e].response))

\* mutant: setRows(data) whatever cancelled is
ThenCallbackUnguarded(e, data) ==
    /\ effects[e].pc = "settled"
    /\ effects' = [effects EXCEPT ![e].pc = "finally"]
    /\ rows' = data
    /\ UNCHANGED <<loading, error, showWeightRatio, mounted>>
    /\ view' = Rerender

\* fetchLogData() resolves with data: .then((data) => { if (!cancelled) setRows(data) })
ThenCallback(e, data) ==
    /\ effects[e].pc = "settled"
    /\ effects' = [effects EXCEPT ![e].pc = "finally"]
    /\ rows' = IF ~effects[e].cancelled THEN data ELSE rows
    /\ UNCHANGED <<loading, error, showWeightRatio, mounted>>
    /\ view' = Rerender

\* mutant: the rejection is swallowed
CatchCallbackSilent(e, message) ==
    /\ effects[e].pc = "settled"
    /\ effects' = [effects EXCEPT ![e].pc = "finally"]
    /\ UNCHANGED <<rows, loading, error, showWeightRatio, mounted>>
    /\ view' = Rerender

\* fetchLogData() rejects: .catch((e) => { if (!cancelled) setError(message) })
CatchCallback(e, message) ==
    /\ effects[e].pc = "settled"
    /\ effects' = [effects EXCEPT ![e].pc = "finally"]
    /\ error' = IF ~effects[e].cancelled THEN Some(message) ELSE error
    /\ UNCHANGED <<rows, loading, showWeightRatio, mounted>>
    /\ view' = Rerender

\* .finally(() => { if (!cancelled) setLoading(false) })
FinallyCallback(e) ==
    /\ effects[e].pc = "finally"
    /\ effects' = [effects EXCEPT ![e].pc = "done"]
    /\ loading' = IF ~effects[e].cancelled THEN FALSE ELSE loading
    /\ UNCHANGED <<rows, error, showWeightRatio, mounted>>
    /\ view' = Rerender

\* the two buttons: onClick={() => setShowWeightRatio(false / true)}
SetShowWeightRatio(b) ==
    /\ mounted
    /\ view.kind = "loaded"
    \* setting a state to the value it has renders nothing
    /\ b # showWeightRatio
    /\ showWeightRatio' = b
    /\ UNCHANGED <<rows, loading, error, mounted, effects>>
    /\ view' = Rerender

Next ==
    \/ Mount
    \/ Unmount
    \/ \E e \in DOMAIN effects, res \in Responses : FetchSettles(e, res)
    \/ \E e \in DOMAIN effects :
         /\ effects[e].pc = "settled"
         /\ promise(e).state = "fulfilled"
         /\ ThenCallback(e, promise(e).value)
    \/ \E e \in DOMAIN effects :
         /\ effects[e].pc = "settled"
         /\ promise(e).state = "rejected"
         /\ CatchCallback(e, promise(e).message)
    \/ \E e \in DOMAIN effects : FinallyCallback(e)
    \/ \E b \in BOOLEAN : SetShowWeightRatio(b)

Spec == Init /\ [][Next]_vars

(***************************************************************************)
(* The derivations on their own: the view just after a fetch has delivered *)
(* any of the input row lists, then the end of the promise chain and the   *)
(* two buttons.                                                            *)
(***************************************************************************)
InitOn(lists) ==
    /\ rows \in lists
    /\ loading = TRUE
    /\ error = NULL
    /\ showWeightRatio = FALSE
    /\ mounted = TRUE
    /\ effects = <<[cancelled |-> FALSE, pc |-> "finally", response |-> NULL]>>
    /\ view = Render(rows, TRUE, NULL, FALSE)

NextData ==
    \/ \E e \in DOMAIN effects : FinallyCallback(e)
    \/ \E b \in BOOLEAN : SetShowWeightRatio(b)

\* the view when a fetch has settled with a table of date cells, then its
\* promise chain and the two buttons
InitEpoch ==
    /\ rows = <<>>
    /\ loading = TRUE
    /\ error = NULL
    /\ showWeightRatio = FALSE
    /\ mounted = TRUE
    /\ \E cs \in EpochCellLists :
         effects = <<[cancelled |-> FALSE, pc |-> "settled",
                      response |-> Some(Response("200", "OK", TableText(cs)))]>>
    /\ view = Render(rows, TRUE, NULL, FALSE)

NextEpoch ==
    \/ \E e \in DOMAIN effects :
         /\ effects[e].pc = "settled"
         /\ promise(e).state = "fulfilled"
         /\ ThenCallback(e, promise(e).value)
    \/ NextData

SpecEpoch == InitEpoch /\ [][NextEpoch]_vars

InitFill == InitOn(FillLists)

SpecFill == InitFill /\ [][NextData]_vars

InitOrder == InitOn(OrderLists)

SpecOrder == InitOrder /\ [][NextData]_vars

InitWeight == InitOn(WeightLists)

SpecWeight == InitWeight /\ [][NextData]_vars

InitRatio == InitOn(RatioLists)

SpecRatio == InitRatio /\ [][NextData]_vars

InitDecimal == InitOn(DecimalLists)

SpecDecimal == InitDecimal /\ [][NextData]_vars

(***************************************************************************)
(* The claims.                                                             *)
(***************************************************************************)
Loaded == view.kind = "loaded"

Lifts == {"bp", "sq", "dl"}

parses(row) == parseTimestamp(row.timestamp) # NULL

\* the positions before i whose row has its own value of a lift
EarlierWith(s, key, i) == { j \in 1..(i - 1) : s[j][key] # NULL }

Nearest(S) == CHOOSE j \in S : \A k \in S : k <= j

\* t is s rounded to one decimal: a multiple of 0.1 at most 0.05 away
IsRounded1(t, s) == t % 10 = 0 /\ t - s <= 5 /\ s - t <= 5

\* C1: in the time-sorted output and for each of bp, sq and dl on its own,
\* the emitted value is the row's own value when it has one, else the value
\* of the nearest earlier position that has one, else absent.
ForwardFillPerLift ==
    Loaded =>
      LET s == sortedRows(rows)
          out == view.filledRows
      IN /\ Len(out) = Len(s)
         /\ \A i \in 1..Len(s), key \in Lifts :
              out[i][key] =
                IF s[i][key] # NULL THEN s[i][key]
                ELSE IF EarlierWith(s, key, i) = {} THEN NULL
                ELSE s[Nearest(EarlierWith(s, key, i))][key]

\* a bench press carried over from the nearer of two earlier rows, in a list
\* that was not given in time order
ForwardFillCarried ==
    /\ Loaded
    /\ LET s == sortedRows(rows) IN
       /\ s # rows
       /\ \E i \in 1..Len(rows) :
            /\ s[i].bp = NULL
            /\ view.filledRows[i].bp = Some(8500)
            /\ \E j \in 1..(i - 1) : s[j].bp = Some(8000)

\* C2: a point's total is present exactly when its three filled lifts are,
\* and is then their sum rounded to one decimal.
TotalInvariant ==
    Loaded =>
      \A k \in DataKeys : \A i \in 1..Len(view.filledRows) :
        LET p == view.charts[k].chartData[i]
            f == view.filledRows[i]
            all3 == f.bp # NULL /\ f.sq # NULL /\ f.dl # NULL
        IN /\ p.total # NULL <=> all3
           /\ all3 => IsRounded1(Val(p.total), Val(f.bp) + Val(f.sq) + Val(f.dl))

\* a total that had to be rounded, from a sum ending in 5 (a tie), beside a
\* point with no total
TotalRounded ==
    /\ Loaded
    /\ \E i \in 1..Len(view.filledRows) :
         LET f == view.filledRows[i] IN
         /\ f.bp # NULL /\ f.sq # NULL /\ f.dl # NULL
         /\ (Val(f.bp) + Val(f.sq) + Val(f.dl)) % 10 = 5
         /\ view.charts["total"].chartData[i].total # NULL
    /\ \E i \in 1..Len(view.filledRows) :
         view.charts["total"].chartData[i].total = NULL

\* C3 as stated: in ratio mode the ratio of a point is present exactly when
\* the row's own body weight is present and > 0.
RatioIffBodyWeight ==
    Loaded =>
      LET s == sortedRows(rows) IN
      \A k \in DataKeys : view.charts[k].useRatio =>
        \A i \in 1..Len(rows) :
          LET own == s[i].bodyWeight IN
          view.charts[k].chartData[i].ratio # NULL <=> (own # NULL /\ Val(own) > 0)

\* C3 as amended: in ratio mode the ratio of a point is present exactly when
\* the row's own body weight is present and > 0 and the point's value of the
\* requested field (a filled lift, or the total) is present.
RatioIffBodyWeightAndValue ==
    Loaded =>
      LET s == sortedRows(rows) IN
      \A k \in DataKeys : view.charts[k].useRatio =>
        \A i \in 1..Len(rows) :
          LET own == s[i].bodyWeight
              p == view.charts[k].chartData[i]
          IN p.ratio # NULL <=> (own # NULL /\ Val(own) > 0 /\ p[k] # NULL)

\* ratio mode with a ratio present at one point, absent at a point whose row
\* has no positive body weight, and absent at a point with a positive body
\* weight and no bench press yet
RatioPresentAndAbsent ==
    /\ Loaded
    /\ view.charts["bp"].useRatio
    /\ \E i, j, l \in 1..Len(rows) :
         LET cd == view.charts["bp"].chartData IN
         /\ cd[i].ratio # NULL
         /\ cd[j].ratio = NULL /\ cd[j].bodyWeight # NULL /\ Val(cd[j].bodyWeight) <= 0
         /\ cd[l].ratio = NULL /\ cd[l].bodyWeight # NULL /\ Val(cd[l].bodyWeight) > 0

Column(cd, key) == [i \in 1..Len(cd) |-> cd[i][key]]

SeriesColumns(totals) ==
    (Loaded /\ rows = SeriesScenario) =>
      \A k \in DataKeys :
        LET cd == view.charts[k].chartData IN
        /\ Column(cd, "bp") = <<Some(8000), Some(8000), Some(8500)>>
        /\ Column(cd, "sq") = <<NULL, Some(10000), Some(10000)>>
        /\ Column(cd, "dl") = <<NULL, NULL, Some(12000)>>
        /\ Column(cd, "total") = totals

\* C4 as stated: the series scenario gives bp = [80, 80, 85],
\* sq = [null, 100, 100], dl = [null, null, 120], total = [null, null, 325].
SeriesScenarioAsStated == SeriesColumns(<<NULL, NULL, Some(32500)>>)

\* C4 as amended: the series scenario gives bp = [80, 80, 85],
\* sq = [null, 100, 100], dl = [null, null, 120] and
\* total = [null, null, 305], the sum of the filled 85, 100 and 120.
SeriesScenarioHolds == SeriesColumns(<<NULL, NULL, Some(30500)>>)

\* the scenario's rows, rendered
SeriesScenarioRendered == Loaded /\ rows = SeriesScenario

\* C5: the summary's total is defined exactly when the three maxima are, and
\* is then their sum rounded to one decimal, not the largest total of a row;
\* the summary scenario gives 100, 150, 200 and 450.
SummaryTotal ==
    view.kind # "unmounted" =>
      LET st == view.bestStats
          all3 == st.maxBP # NULL /\ st.maxSQ # NULL /\ st.maxDL # NULL
      IN /\ st.total # NULL <=> all3
         /\ all3 => IsRounded1(Val(st.total),
                               Val(st.maxBP) + Val(st.maxSQ) + Val(st.maxDL))
         /\ rows = SummaryScenario =>
              st = [maxBP |-> Some(10000), maxSQ |-> Some(15000),
                    maxDL |-> Some(20000), total |-> Some(45000)]

\* the summary scenario, rendered
SummaryScenarioRendered == Loaded /\ rows = SummaryScenario

\* the summary's field of a lift
MaxField(key) ==
    CASE key = "bp" -> "maxBP" [] key = "sq" -> "maxSQ" [] key = "dl" -> "maxDL"

\* C6: the maximum of a lift is the largest value any row has for it, rows
\* whose timestamp is empty or does not parse included, and is absent exactly
\* when no row has a value for it.
PerLiftMaximum ==
    view.kind # "unmounted" =>
      \A key \in Lifts :
        LET m == view.bestStats[MaxField(key)]
            has == { i \in 1..Len(rows) : rows[i][key] # NULL }
        IN /\ m = NULL <=> has = {}
           /\ m # NULL =>
                /\ \E i \in has : rows[i][key] = m
                /\ \A i \in has : Val(rows[i][key]) <= Val(m)

\* the largest bench press is that of a row whose timestamp does not parse,
\* above that of a row whose timestamp does
MaximumFromUndatedRow ==
    /\ Loaded
    /\ \E i, j \in 1..Len(rows) :
         /\ ~parses(rows[i]) /\ rows[i].bp = view.bestStats.maxBP
         /\ parses(rows[j]) /\ rows[j].bp # NULL
         /\ Val(rows[j].bp) < Val(view.bestStats.maxBP)

\* the rows with a parseable timestamp and a positive body weight
Weighed(rs) ==
    { i \in 1..Len(rs) :
        parses(rs[i]) /\ rs[i].bodyWeight # NULL /\ Val(rs[i].bodyWeight) > 0 }

\* row i is at least as late as every row of S
LatestIn(rs, i, S) ==
    \A j \in S : ~NumLess(parseTimestamp(rs[i].timestamp),
                          parseTimestamp(rs[j].timestamp))

\* C7: latestBodyWeight is the body weight of a latest row among the rows
\* with a parseable timestamp and a positive body weight, and is absent when
\* there is no such row.
LatestBodyWeightHolds ==
    view.kind # "unmounted" =>
      LET lbw == view.latestBodyWeight
          W == Weighed(rows)
      IN /\ lbw = NULL <=> W = {}
         /\ lbw # NULL =>
              \E i \in W : rows[i].bodyWeight = lbw /\ LatestIn(rows, i, W)

\* the latest dated row has no positive body weight, an earlier one has, and a
\* row whose timestamp does not parse has another one
LatestBodyWeightScanned ==
    /\ Loaded
    /\ view.latestBodyWeight = Some(6000)
    /\ \E i, j, k \in 1..Len(rows) :
         /\ rows[i].timestamp = "2024-02-01" /\ rows[i].bodyWeight = Some(0)
         /\ rows[j].timestamp = "2024-01-01" /\ rows[j].bodyWeight = Some(6000)
         /\ ~parses(rows[k]) /\ rows[k].bodyWeight = Some(6150)

Dated(rs) == { i \in 1..Len(rs) : parses(rs[i]) }

\* C8: getLatestRow returns a row whose parsed timestamp is the greatest of
\* the parseable ones, never a row whose timestamp does not parse, and
\* nothing exactly when no timestamp parses.
LatestRowHolds ==
    view.kind # "unmounted" =>
      LET D == Dated(rows) IN
      /\ view.latestRow = NULL <=> D = {}
      /\ view.latestRow # NULL =>
           \E i \in D : view.latestRow = Some(rows[i]) /\ LatestIn(rows, i, D)

\* the latest row is neither the last row of the list nor the last dated one
LatestRowNotLast ==
    /\ Loaded
    /\ Len(rows) = 3
    /\ view.latestRow = Some(rows[1])
    /\ parses(rows[2]) /\ rows[2].timestamp # rows[1].timestamp
    /\ ~parses(rows[3])

\* out[i] is the row r with its lifts filled
FilledFrom(o, r) ==
    /\ o.timestamp = r.timestamp
    /\ o.bodyWeight = r.bodyWeight
    /\ \A key \in Lifts : r[key] # NULL => o[key] = r[key]

\* C9: the series holds every input row exactly once, the rows with a
\* parseable timestamp in non-decreasing order of time, and every row whose
\* timestamp is empty or does not parse after all of those.
SeriesOrdering ==
    Loaded =>
      LET out == view.filledRows
          n == Len(rows)
      IN /\ Len(out) = n
         /\ \E p \in Permutations(1..n) : \A i \in 1..n : FilledFrom(out[i], rows[p[i]])
         /\ \A i, j \in 1..n : i < j =>
              /\ parses(out[j]) => parses(out[i])
              /\ (parses(out[i]) /\ parses(out[j])) =>
                   ~NumLess(parseTimestamp(out[j].timestamp),
                            parseTimestamp(out[i].timestamp))

\* a list that starts with a row whose timestamp does not parse, followed by
\* two dated rows given latest first
SeriesReordered ==
    /\ Loaded
    /\ Len(rows) = 3
    /\ ~parses(rows[1]) /\ parses(rows[2]) /\ parses(rows[3])
    /\ NumLess(parseTimestamp(rows[3].timestamp), parseTimestamp(rows[2].timestamp))
    /\ view.filledRows[3].timestamp = rows[1].timestamp

\* effect e's promise chain moves in this step: a callback of its fetch runs
Settles(e) == effects'[e].pc # effects[e].pc

\* C10: a callback of a fetch whose effect was torn down changes none of rows,
\* error and loading; rows change, an error appears and loading ends only by
\* a callback of a fetch whose effect has not been torn down.
StaleFetchGuard ==
    [][ /\ \A e \in DOMAIN effects :
             (effects[e].cancelled /\ Settles(e)) => UNCHANGED <<rows, error, loading>>
        /\ (rows' # rows \/ (error' # error /\ error' # NULL) \/ (loading /\ ~loading'))
             => \E e \in DOMAIN effects : Settles(e) /\ ~effects[e].cancelled
      ]_vars

\* the first fetch ran its whole chain after the teardown, and the view state
\* is still the one the mount left: loading, no rows, no error
SettledAfterTeardown ==
    /\ Len(effects) = 1
    /\ effects[1].cancelled /\ effects[1].pc = "done"
    /\ loading /\ rows = <<>> /\ error = NULL

\* the three failures of a fetch: the transport fails, the response is not a
\* success, the unwrapped text is not the JSON of an object
TransportFailure(res) == res.failed

NonSuccess(res) == ~res.failed /\ ~res.ok

MalformedPayload(res) ==
    /\ ~res.failed /\ res.ok
    /\ LET parsed == JSONParse(res.text.middle) IN parsed.threw \/ parsed.value = NULL

FetchFailed(res) == TransportFailure(res) \/ NonSuccess(res) \/ MalformedPayload(res)

FailureMessage(res) ==
    IF TransportFailure(res) THEN res.message
    ELSE IF NonSuccess(res) THEN "HTTP " \o res.status \o ": " \o res.statusText
    ELSE LET parsed == JSONParse(res.text.middle) IN
      IF parsed.threw THEN parsed.message
      ELSE "Cannot read properties of null (reading 'table')"

\* the e-th run was not torn down and its fetch has failed
FailedRun(e) ==
    /\ ~effects[e].cancelled
    /\ effects[e].response # NULL
    /\ FetchFailed(Val(effects[e].response))

ResponseCells ==
    LET json == Val(JSONParse(Val(effects[1].response).text.middle).value)
        rs == Val(Val(json.table).rows)
    IN [i \in 1..(Len(rs) - 1) |-> Val(rs[i + 1].c)[1]]

\* the number a date cell holds: its value, else its display form
CellEpoch(c) == NumberOfRaw(Val(IF c.v # NULL THEN c.v ELSE c.f))

\* n has 10 to 12 digits (1e9 <= n < 1e12) or 13 to 15 (1e12 <= n < 1e15)
IsEpoch(n) == n # NULL /\ Len(n) \in 10..15

\* n seconds since the epoch for 10 to 12 digits, n milliseconds for 13 to 15
EpochInstant(n) == IF Len(n) \in 10..12 THEN n \o <<0, 0, 0>> ELSE n

\* C12: parseTimestamp takes a numeral n of 1e9 <= n < 1e12 for n seconds and
\* one of 1e12 <= n < 1e15 for n milliseconds, also in the date shown with
\* the latest row; and the timestamp decoded from a cell holding such a
\* number parses to the same instant.
EpochClassification ==
    effects[1].pc \in {"finally", "done"} =>
      LET cs == ResponseCells IN
      /\ Len(rows) = Len(cs)
      /\ \A i \in 1..Len(rows) :
            LET n == NumberOf(Trim(rows[i].timestamp)) IN
            IsEpoch(n) => parseTimestamp(rows[i].timestamp) = EpochInstant(n)
      /\ \A i \in 1..Len(cs) :
            LET n == CellEpoch(cs[i]) IN
            IsEpoch(n) => parseTimestamp(rows[i].timestamp) = EpochInstant(n)
      /\ view.latestRow # NULL =>
            LET n == NumberOf(Trim(Val(view.latestRow).timestamp)) IN
            IsEpoch(n) => view.asOf = EpochInstant(n)

\* the last numeral of the seconds range reached parseTimestamp as it was and
\* is the date shown; the first number of the millisecond range was decoded
EpochBothRanges ==
    /\ Loaded
    /\ \E i, j \in 1..Len(rows) :
         /\ rows[i].timestamp = "999999999999"
         /\ ResponseCells[j] = Cell(Some(Num(E12)), NULL)
         /\ rows[j].timestamp = "2001-09-09T01:46:40.000Z"
    /\ view.asOf = Nines(12) \o <<0, 0, 0>>

\* C13: the body weight of every row of the filled series and of every point
\* of every card is the body weight of the row it was made from, absent when
\* that row has none, whatever the earlier rows hold; and no step that
\* renders the series changes the rows it was built from.
BodyWeightNotFilled ==
    /\ [](Loaded =>
            LET s == sortedRows(rows) IN
            /\ Len(view.filledRows) = Len(s)
            /\ \A i \in 1..Len(s) :
                  /\ view.filledRows[i].timestamp = s[i].timestamp
                  /\ view.filledRows[i].bodyWeight = s[i].bodyWeight
                  /\ \A k \in DataKeys :
                        /\ Len(view.charts[k].chartData) = Len(s)
                        /\ view.charts[k].chartData[i].bodyWeight = s[i].bodyWeight)
    /\ [][view'.kind = "loaded" => rows' = rows]_vars

\* a point without a body weight after an earlier point that has one
BodyWeightGap ==
    /\ Loaded
    /\ \E i, j \in 1..Len(view.filledRows) :
         /\ i < j
         /\ view.charts["bodyWeight"].chartData[i].bodyWeight # NULL
         /\ sortedRows(rows)[j].bodyWeight = NULL
         /\ view.charts["bodyWeight"].chartData[j].bodyWeight = NULL

====
